---- MODULE Spec2Model ----
(***************************************************************************)
(* Model of the SMTP session state machine of yetanothersmtpd              *)
(* (session.go, command.go, address.go, status.go).                        *)
(*                                                                         *)
(* One session is followed from newSession to the end of serve.  A client  *)
(* line is a sequence of symbols: words, the blank SP, the colon and the   *)
(* angle brackets; parseLine and parseAddress tokenize it as the code      *)
(* does.  The collaborators (policy handler, message handler, connection   *)
(* factory, transport) answer nondeterministically.                        *)
(***************************************************************************)
EXTENDS Integers, Sequences, FiniteSets, TLC

VARIABLES
    server,     \* Server configuration: OnNewConnection (non-nil?), RequireAuth,
                \* RequireTLS, TLSConfig (non-nil?)
    s,          \* the session struct: sHandler, mHandler, conn, gotHelo, isTLS, keepGoing
    pc,         \* position of the session goroutine inside serve
    ret,        \* the error value serveOne is about to pass to handleError
    op,         \* what the last serveOne call dispatched to
    line,       \* the line the last serveOne call read
    pre,        \* the session struct as it was when that line was dispatched
    calls,      \* calls made into the policy / message handler by that command
    wrote,      \* reply lines written (or attempted) for that command
    sessErrs,   \* errors handed to HandleSessionError so far
    connClosed, \* closeOrReport has closed the transport
    upgrades,   \* number of times handleSTARTTLS replaced the session
    servePc,    \* position of Server.Serve
    accepted,   \* number of connections listener.Accept has returned
    onNew,      \* the calls of OnNewConnection made by Server.Serve
    workers,    \* the sessions Server.Serve has started a goroutine for
    serveErr    \* what Server.Serve returned

\* The variables of Server.Serve and all variables.
serveVars == <<servePc, accepted, onNew, workers, serveErr>>
vars == <<server, s, pc, ret, op, line, pre, calls, wrote, sessErrs,
          connClosed, upgrades, servePc, accepted, onNew, workers, serveErr>>

\* Number of distinct message handlers the policy handler can hand out.
MaxMsgHandlers == 2

\* Number of connections the listener accepts before it blocks for good.
MaxConns == 4

(***************************************************************************)
(* Status codes and reportable statuses (status.go)                        *)
(***************************************************************************)
StatusServiceReady == 220
StatusServiceClosing == 221
StatusAuthenticated == 235
StatusOK == 250
StatusProvideCredentials == 334
StatusStartMailInput == 354
StatusSyntaxError == 501
StatusCommandNotImplemented == 502
StatusBadSequence == 503
StatusMailboxPermanentlyUnavailable == 550

\* An error value: nil, a *ReportableStatus, or any other error.
NewReportableStatus(code, msg) == [kind |-> "status", code |-> code, msg |-> msg]
NilErr == [kind |-> "nil", code |-> 0, msg |-> ""]
OtherErr(msg) == [kind |-> "other", code |-> 0, msg |-> msg]

AuthSuccess == NewReportableStatus(StatusAuthenticated, "OK, you are now authenticated")
GoAhead == NewReportableStatus(StatusOK, "Go ahead")
ThankYou == NewReportableStatus(StatusOK, "Thank you")
ErrBadSequence == NewReportableStatus(StatusBadSequence, "Invalid command sequence")
ErrDecodingCredentials ==
    NewReportableStatus(StatusSyntaxError, "Couldn't decode your credentials")
ErrInvalidSyntax == NewReportableStatus(StatusSyntaxError, "Invalid syntax")
ErrMalformedEmail == NewReportableStatus(StatusSyntaxError, "Malformed email address")
ErrNoHelo == NewReportableStatus(StatusBadSequence, "Please introduce yourself first")

(***************************************************************************)
(* Lines, fields and parameters (command.go, address.go)                   *)
(***************************************************************************)
SP == " "
COLON == ":"
LT == "<"
GT == ">"
NUL == "\\0"

\* strings.ToUpper on one symbol: the lower-case words of the model.
UpperWord(w) ==
    CASE w = "mail" -> "MAIL"
      [] w = "rcpt" -> "RCPT"
      [] w = "helo" -> "HELO"
      [] w = "ehlo" -> "EHLO"
      [] w = "rset" -> "RSET"
      [] w = "starttls" -> "STARTTLS"
      [] w = "plain" -> "PLAIN"
      [] w = "login" -> "LOGIN"
      [] w = "foo" -> "FOO"
      [] OTHER -> w

ToUpper(str) == [i \in 1..Len(str) |-> UpperWord(str[i])]

\* strings.Split(str, sep) for a one-symbol separator: the pieces between
\* separators, empty pieces kept; always at least one piece.
RECURSIVE SplitFrom(_, _, _, _)
SplitFrom(str, sep, i, cur) ==
    IF i > Len(str) THEN <<cur>>
    ELSE IF str[i] = sep THEN <<cur>> \o SplitFrom(str, sep, i + 1, <<>>)
    ELSE SplitFrom(str, sep, i + 1, Append(cur, str[i]))

Split(str, sep) == SplitFrom(str, sep, 1, <<>>)

\* strings.Fields: the maximal runs of non-blank symbols.
Fields(str) == SelectSeq(Split(str, SP), LAMBDA f : f /= <<>>)

\* parseLine: the verb is the upper-cased first field, params the colon-split
\* second field (nil when there is none).
parseLine(l) ==
    LET fields == Fields(l) IN
    [ line   |-> l,
      fields |-> fields,
      action |-> IF Len(fields) > 0 THEN ToUpper(fields[1]) ELSE <<>>,
      params |-> IF Len(fields) > 1 THEN Split(fields[2], COLON) ELSE <<>> ]

\* The addr-specs net/mail accepts among the words of the model.
Mailboxes == {"a@b", "c@d"}

\* parseAddress: "<" prefix, ">" suffix, and the whole must parse as one
\* mailbox; the result is the bare address.
parseAddress(src) ==
    IF Len(src) = 0 \/ src[1] /= LT \/ src[Len(src)] /= GT
    THEN [ok |-> FALSE, addr |-> <<>>]
    ELSE IF Len(src) = 3 /\ src[2] \in Mailboxes
    THEN [ok |-> TRUE, addr |-> <<src[2]>>]
    ELSE [ok |-> FALSE, addr |-> <<>>]

(***************************************************************************)
(* The session struct and the answers of its collaborators                 *)
(***************************************************************************)
\* The nil SessionHandler and the nil MessageHandler.
NoSessionHandler == <<>>
NoMessageHandler == <<>>

\* The policy handler given to newSession by Serve, the one OnNewConnection
\* returns for the upgraded connection, and the message handlers.
PlainHandler == <<"sessionHandler", "plain">>
TLSHandler == <<"sessionHandler", "tls">>
MessageHandlers == { <<"messageHandler", i>> : i \in 1..MaxMsgHandlers }

\* newSession: everything but server, handler, conn and isTLS is zeroed.
newSession(handler, conn, isTLS) ==
    [ sHandler  |-> handler,
      mHandler  |-> NoMessageHandler,
      conn      |-> conn,
      gotHelo   |-> FALSE,
      isTLS     |-> isTLS,
      keepGoing |-> TRUE ]

\* What a handler method may return besides nil: a reportable status of its
\* own choosing or any other error.
HandlerErrs ==
    { NewReportableStatus(StatusMailboxPermanentlyUnavailable, "rejected by handler"),
      OtherErr("handler failure") }
HandlerResults == {NilErr} \cup HandlerErrs

\* Authenticate answers nil, AuthSuccess, or an error.
AuthResults == {NilErr, AuthSuccess} \cup HandlerErrs

\* GetMessageHandler: a non-nil handler and no error, or an error.
GetMessageHandlerResults ==
    { [handler |-> h, err |-> NilErr] : h \in MessageHandlers }
      \cup { [handler |-> NoMessageHandler, err |-> e] : e \in HandlerErrs }

\* Server.OnNewConnection: a handler, nil (decline), or an error.
OnNewConnectionResults ==
    { [handler |-> TLSHandler, err |-> NilErr],
      [handler |-> NoSessionHandler, err |-> NilErr] }
      \cup { [handler |-> NoSessionHandler, err |-> e] : e \in HandlerErrs }

\* Server.OnNewConnection asked by Serve about a raw connection: a handler,
\* nil (decline), or an error.
RawConnectionResults ==
    { [handler |-> PlainHandler, err |-> NilErr],
      [handler |-> NoSessionHandler, err |-> NilErr] }
      \cup { [handler |-> NoSessionHandler, err |-> e] : e \in HandlerErrs }

\* io.Copy from the dot reader into the sink: done, a transport read error,
\* or whatever the sink's Write returned.
CopyResults == {NilErr, OtherErr("read failure")} \cup HandlerErrs

\* The answer of a collaborator: an error and, where one is returned, a handler.
Answer(err) == [handler |-> <<>>, err |-> err]

\* One call into a collaborator: the method, its arguments (each a string,
\* i.e. a sequence of symbols) and its answer.
Call(name, a1, a2, out) == [op |-> name, a1 |-> a1, a2 |-> a2, out |-> out]

\* One PrintfLine: code, separator ("-" continuation, " " final), text, and
\* whether the write reached the transport.
Written(code, sep, msg, ok) == [code |-> code, sep |-> sep, msg |-> msg, ok |-> ok]

WriteErr == OtherErr("write failure")
ReadErr == OtherErr("read failure")

\* The outcome of one verb handler: the session afterwards, the returned
\* error, the calls and writes it made, whether it panicked, whether it
\* replaced the session.
Res(sess, r, c, w) ==
    [s |-> sess, ret |-> r, calls |-> c, wrote |-> w, crash |-> FALSE, up |-> FALSE]
Panic(sess, c, w) ==
    [s |-> sess, ret |-> NilErr, calls |-> c, wrote |-> w, crash |-> TRUE, up |-> FALSE]

(***************************************************************************)
(* Verb handlers (session.go)                                              *)
(***************************************************************************)
\* handleNOOP
handleNOOP(sess) == Res(sess, GoAhead, <<>>, <<>>)

\* handleQUIT
handleQUIT(sess) ==
    Res([sess EXCEPT !.keepGoing = FALSE],
        NewReportableStatus(StatusServiceClosing, "OK, bye"), <<>>, <<>>)

\* handleRSET as it would be if the assignment to mHandler were missing.
handleRSET_keepsHandler(sess) == Res(sess, GoAhead, <<>>, <<>>)

\* handleRSET
handleRSET(sess) ==
    Res([sess EXCEPT !.mHandler = NoMessageHandler], GoAhead, <<>>, <<>>)

\* handleHELO; helo is what HandleHELO answers.
handleHELO(sess, cmd, helo) ==
    IF Len(cmd.fields) < 2 THEN Res(sess, ErrInvalidSyntax, <<>>, <<>>)
    ELSE
      LET s1 == [sess EXCEPT !.mHandler = NoMessageHandler]
          c  == <<Call("HandleHELO", cmd.fields[2], <<"false">>, Answer(helo))>>
      IN IF s1.sHandler = NoSessionHandler THEN Panic(s1, <<>>, <<>>)
         ELSE IF helo /= NilErr THEN Res(s1, helo, c, <<>>)
         ELSE Res([s1 EXCEPT !.gotHelo = TRUE], GoAhead, c, <<>>)

\* extensions as it would be if STARTTLS were offered whenever TLS material
\* is configured, encrypted or not.
extensions_ignoresIsTLS(sess, srv) ==
    <<"N SIZE", "8BITMIME", "PIPELINING">>
      \o (IF srv.TLSConfig THEN <<"STARTTLS">> ELSE <<>>)
      \o (IF srv.RequireAuth THEN <<"AUTH PLAIN LOGIN">> ELSE <<>>)

\* extensions
extensions(sess, srv) ==
    <<"N SIZE", "8BITMIME", "PIPELINING">>
      \o (IF srv.TLSConfig /\ ~sess.isTLS THEN <<"STARTTLS">> ELSE <<>>)
      \o (IF srv.RequireAuth THEN <<"AUTH PLAIN LOGIN">> ELSE <<>>)

\* handleEHLO; failAt is the first continuation line whose write fails
\* (0: none fails).
handleEHLO(sess, srv, cmd, helo, failAt) ==
    IF Len(cmd.fields) < 2 THEN Res(sess, ErrInvalidSyntax, <<>>, <<>>)
    ELSE
      LET s1  == [sess EXCEPT !.mHandler = NoMessageHandler]
          c   == <<Call("HandleHELO", cmd.fields[2], <<"true">>, Answer(helo))>>
          ext == extensions(s1, srv)
          c2  == Append(c, Call("MaxMessageSize", <<>>, <<>>, Answer(NilErr)))
          n   == Len(ext) - 1
          bad == failAt >= 1 /\ failAt <= n
          w   == [i \in 1..(IF bad THEN failAt ELSE n) |->
                    Written(StatusOK, "-", ext[i], ~(bad /\ i = failAt))]
      IN IF s1.sHandler = NoSessionHandler THEN Panic(s1, <<>>, <<>>)
         ELSE IF helo /= NilErr THEN Res(s1, helo, c, <<>>)
         ELSE IF bad THEN Res(s1, WriteErr, c2, w)
         ELSE Res([s1 EXCEPT !.gotHelo = TRUE],
                  NewReportableStatus(StatusOK, ext[Len(ext)]), c2, w)

\* handleMAIL as it would be without the test of gotHelo.
handleMAIL_noHeloCheck(sess, srv, cmd, gmh) ==
    IF srv.RequireTLS /\ ~sess.isTLS
    THEN Res(sess, NewReportableStatus(StatusBadSequence, "please start TLS 1st"),
             <<>>, <<>>)
    ELSE IF Len(cmd.params) < 2 THEN Panic(sess, <<>>, <<>>)
    ELSE
      LET from == parseAddress(cmd.params[2])
          c    == <<Call("GetMessageHandler", from.addr, <<>>, gmh)>>
      IN IF ~from.ok THEN Res(sess, ErrMalformedEmail, <<>>, <<>>)
         ELSE IF sess.sHandler = NoSessionHandler THEN Panic(sess, <<>>, <<>>)
         ELSE IF gmh.err /= NilErr THEN Res(sess, gmh.err, c, <<>>)
         ELSE Res([sess EXCEPT !.mHandler = gmh.handler], GoAhead, c, <<>>)

\* handleMAIL as it would be if the result of GetMessageHandler were stored
\* before its error is looked at.
handleMAIL_storesBeforeCheck(sess, srv, cmd, gmh) ==
    IF ~sess.gotHelo THEN Res(sess, ErrNoHelo, <<>>, <<>>)
    ELSE IF srv.RequireTLS /\ ~sess.isTLS
    THEN Res(sess, NewReportableStatus(StatusBadSequence, "please start TLS 1st"),
             <<>>, <<>>)
    ELSE IF Len(cmd.params) < 2 THEN Panic(sess, <<>>, <<>>)
    ELSE
      LET from == parseAddress(cmd.params[2])
          c    == <<Call("GetMessageHandler", from.addr, <<>>, gmh)>>
          s1   == [sess EXCEPT !.mHandler = gmh.handler]
      IN IF ~from.ok THEN Res(sess, ErrMalformedEmail, <<>>, <<>>)
         ELSE IF sess.sHandler = NoSessionHandler THEN Panic(sess, <<>>, <<>>)
         ELSE IF gmh.err /= NilErr THEN Res(s1, gmh.err, c, <<>>)
         ELSE Res(s1, GoAhead, c, <<>>)

\* handleMAIL as it would be without the test of RequireTLS.
handleMAIL_noTLSCheck(sess, srv, cmd, gmh) ==
    IF ~sess.gotHelo THEN Res(sess, ErrNoHelo, <<>>, <<>>)
    ELSE IF Len(cmd.params) < 2 THEN Panic(sess, <<>>, <<>>)
    ELSE
      LET from == parseAddress(cmd.params[2])
          c    == <<Call("GetMessageHandler", from.addr, <<>>, gmh)>>
      IN IF ~from.ok THEN Res(sess, ErrMalformedEmail, <<>>, <<>>)
         ELSE IF sess.sHandler = NoSessionHandler THEN Panic(sess, <<>>, <<>>)
         ELSE IF gmh.err /= NilErr THEN Res(sess, gmh.err, c, <<>>)
         ELSE Res([sess EXCEPT !.mHandler = gmh.handler], GoAhead, c, <<>>)

\* handleMAIL as it would be if RequireAuth were enforced against MAIL.
handleMAIL_enforcesAuth(sess, srv, cmd, gmh) ==
    IF ~sess.gotHelo THEN Res(sess, ErrNoHelo, <<>>, <<>>)
    ELSE IF srv.RequireTLS /\ ~sess.isTLS
    THEN Res(sess, NewReportableStatus(StatusBadSequence, "please start TLS 1st"),
             <<>>, <<>>)
    ELSE IF srv.RequireAuth
    THEN Res(sess, NewReportableStatus(StatusBadSequence, "please authenticate 1st"),
             <<>>, <<>>)
    ELSE IF Len(cmd.params) < 2 THEN Panic(sess, <<>>, <<>>)
    ELSE
      LET from == parseAddress(cmd.params[2])
          c    == <<Call("GetMessageHandler", from.addr, <<>>, gmh)>>
      IN IF ~from.ok THEN Res(sess, ErrMalformedEmail, <<>>, <<>>)
         ELSE IF sess.sHandler = NoSessionHandler THEN Panic(sess, <<>>, <<>>)
         ELSE IF gmh.err /= NilErr THEN Res(sess, gmh.err, c, <<>>)
         ELSE Res([sess EXCEPT !.mHandler = gmh.handler], GoAhead, c, <<>>)

\* handleMAIL; gmh is what GetMessageHandler answers.  cmd.params[1] of the
\* code is params[2] here; indexing past the end panics.
handleMAIL(sess, srv, cmd, gmh) ==
    IF ~sess.gotHelo THEN Res(sess, ErrNoHelo, <<>>, <<>>)
    ELSE IF srv.RequireTLS /\ ~sess.isTLS
    THEN Res(sess, NewReportableStatus(StatusBadSequence, "please start TLS 1st"),
             <<>>, <<>>)
    ELSE IF Len(cmd.params) < 2 THEN Panic(sess, <<>>, <<>>)
    ELSE
      LET from == parseAddress(cmd.params[2])
          c    == <<Call("GetMessageHandler", from.addr, <<>>, gmh)>>
      IN IF ~from.ok THEN Res(sess, ErrMalformedEmail, <<>>, <<>>)
         ELSE IF sess.sHandler = NoSessionHandler THEN Panic(sess, <<>>, <<>>)
         ELSE IF gmh.err /= NilErr THEN Res(sess, gmh.err, c, <<>>)
         ELSE Res([sess EXCEPT !.mHandler = gmh.handler], GoAhead, c, <<>>)

\* handleRCPT as it would be if the address were parsed before the test of
\* mHandler.
handleRCPT_parsesFirst(sess, cmd, added) ==
    IF Len(cmd.params) < 2 THEN Panic(sess, <<>>, <<>>)
    ELSE
      LET recipient == parseAddress(cmd.params[2])
          c == <<Call("AddRecipient", recipient.addr, <<>>, Answer(added))>>
      IN IF ~recipient.ok THEN Res(sess, ErrMalformedEmail, <<>>, <<>>)
         ELSE IF sess.mHandler = NoMessageHandler
         THEN Res(sess, ErrBadSequence, <<>>, <<>>)
         ELSE IF added /= NilErr THEN Res(sess, added, c, <<>>)
         ELSE Res(sess, GoAhead, c, <<>>)

\* handleRCPT; added is what AddRecipient answers.
handleRCPT(sess, cmd, added) ==
    IF sess.mHandler = NoMessageHandler THEN Res(sess, ErrBadSequence, <<>>, <<>>)
    ELSE IF Len(cmd.params) < 2 THEN Panic(sess, <<>>, <<>>)
    ELSE
      LET recipient == parseAddress(cmd.params[2])
          c == <<Call("AddRecipient", recipient.addr, <<>>, Answer(added))>>
      IN IF ~recipient.ok THEN Res(sess, ErrMalformedEmail, <<>>, <<>>)
         ELSE IF added /= NilErr THEN Res(sess, added, c, <<>>)
         ELSE Res(sess, GoAhead, c, <<>>)

\* handleDATA; gdw is the error of GetDataWriter, wOk whether the 354 line
\* was written, copy the error of io.Copy, closed the error of Close.
handleDATA(sess, gdw, wOk, copy, closed) ==
    LET c1 == <<Call("GetDataWriter", <<>>, <<>>, Answer(gdw))>>
        w  == <<Written(StatusStartMailInput, " ",
                        "Go ahead. End your data with <CR><LF>.<CR><LF>", wOk)>>
        c2 == Append(c1, Call("Write", <<>>, <<>>, Answer(copy)))
        c3 == Append(c2, Call("Close", <<>>, <<>>, Answer(closed)))
    IN IF sess.mHandler = NoMessageHandler THEN Res(sess, ErrBadSequence, <<>>, <<>>)
       ELSE IF gdw /= NilErr THEN Res(sess, gdw, c1, <<>>)
       ELSE IF ~wOk THEN Res(sess, WriteErr, c1, w)
       ELSE IF copy /= NilErr THEN Res(sess, copy, c2, w)
       ELSE IF closed /= NilErr THEN Res(sess, closed, c3, w)
       ELSE Res([sess EXCEPT !.mHandler = NoMessageHandler], ThankYou, c3, w)

\* handleSTARTTLS as it would be without the test of isTLS.
handleSTARTTLS_noTLSCheck(sess, srv, wOk, fresh) ==
    LET w == <<Written(StatusOK, " ", "Go ahead", wOk)>>
        c == <<Call("OnNewConnection", <<"peer">>, <<"true">>, fresh)>>
    IN IF ~srv.TLSConfig
       THEN Res(sess, NewReportableStatus(StatusCommandNotImplemented, "TLS not supported"),
                <<>>, <<>>)
       ELSE IF ~wOk THEN Res(sess, WriteErr, <<>>, w)
       ELSE IF fresh.err /= NilErr THEN Res(sess, fresh.err, c, w)
       ELSE [Res(newSession(fresh.handler, "tlsConn", TRUE), NilErr, c, w)
               EXCEPT !.up = TRUE]

\* handleSTARTTLS as it would be if it switched the transport, the handler
\* and the flag isTLS in place instead of building a new session.
handleSTARTTLS_keepsState(sess, srv, wOk, fresh) ==
    LET w == <<Written(StatusOK, " ", "Go ahead", wOk)>>
        c == <<Call("OnNewConnection", <<"peer">>, <<"true">>, fresh)>>
    IN IF sess.isTLS
       THEN Res(sess, NewReportableStatus(StatusSyntaxError, "already running TLS"),
                <<>>, <<>>)
       ELSE IF ~srv.TLSConfig
       THEN Res(sess, NewReportableStatus(StatusCommandNotImplemented, "TLS not supported"),
                <<>>, <<>>)
       ELSE IF ~wOk THEN Res(sess, WriteErr, <<>>, w)
       ELSE IF fresh.err /= NilErr THEN Res(sess, fresh.err, c, w)
       ELSE [Res([sess EXCEPT !.sHandler = fresh.handler, !.conn = "tlsConn",
                              !.isTLS = TRUE], NilErr, c, w)
               EXCEPT !.up = TRUE]

\* handleSTARTTLS; wOk is whether the 250 line was written, fresh what
\* OnNewConnection answers.
handleSTARTTLS(sess, srv, wOk, fresh) ==
    LET w == <<Written(StatusOK, " ", "Go ahead", wOk)>>
        c == <<Call("OnNewConnection", <<"peer">>, <<"true">>, fresh)>>
    IN IF sess.isTLS
       THEN Res(sess, NewReportableStatus(StatusSyntaxError, "already running TLS"),
                <<>>, <<>>)
       ELSE IF ~srv.TLSConfig
       THEN Res(sess, NewReportableStatus(StatusCommandNotImplemented, "TLS not supported"),
                <<>>, <<>>)
       ELSE IF ~wOk THEN Res(sess, WriteErr, <<>>, w)
       ELSE IF fresh.err /= NilErr THEN Res(sess, fresh.err, c, w)
       ELSE [Res(newSession(fresh.handler, "tlsConn", TRUE), NilErr, c, w)
               EXCEPT !.up = TRUE]

(***************************************************************************)
(* AUTH (session.go)                                                       *)
(***************************************************************************)
\* base64.StdEncoding.DecodeString on the payloads of the model: the empty
\* string decodes to no bytes, a known word to its bytes, anything else
\* (an unknown word, a string with a blank) is not base64.
B64Words ==
    {"AGFsaWNlAHNlY3JldA==", "YWxpY2UAc2VjcmV0", "AGFsaWNlAHNlY3JldAA=",
     "YWxpY2U=", "c2VjcmV0"}

B64Bytes(w) ==
    CASE w = "AGFsaWNlAHNlY3JldA==" -> <<NUL, "alice", NUL, "secret">>
      [] w = "YWxpY2UAc2VjcmV0"     -> <<"alice", NUL, "secret">>
      [] w = "AGFsaWNlAHNlY3JldAA=" -> <<NUL, "alice", NUL, "secret", NUL>>
      [] w = "YWxpY2U="             -> <<"alice">>
      [] w = "c2VjcmV0"             -> <<"secret">>

DecodeString(str) ==
    IF str = <<>> THEN [ok |-> TRUE, data |-> <<>>]
    ELSE IF Len(str) = 1 /\ str[1] \in B64Words
    THEN [ok |-> TRUE, data |-> B64Bytes(str[1])]
    ELSE [ok |-> FALSE, data |-> <<>>]

\* The lines a client may send in answer to a 334 prompt.
AuthLines ==
    { <<>>, <<"AGFsaWNlAHNlY3JldA==">>, <<"YWxpY2UAc2VjcmV0">>, <<"!!!">> }

\* reader.ReadLine inside a handler: a transport error or a line.
ReadResults ==
    { [err |-> ReadErr, line |-> <<>>] }
      \cup { [err |-> NilErr, line |-> l] : l \in AuthLines }

\* What the transport and the policy handler do during one AUTH command.
\* w1, r1: the first prompt and its answer; w2, r2: the second; auth: the
\* answer of Authenticate.  What follows a failed write or read is never
\* consulted and is fixed.
NoRead == [err |-> ReadErr, line |-> <<>>]
AuthEnvs ==
    { e \in [ w1 : BOOLEAN, r1 : ReadResults, w2 : BOOLEAN, r2 : ReadResults,
              auth : AuthResults ] :
        /\ ~e.w1 => e.r1 = NoRead
        /\ e.r1 = NoRead => e.w2
        /\ (e.r1 = NoRead \/ ~e.w2) => e.r2 = NoRead
        /\ e.r2 = NoRead => e.auth = NilErr }

\* authLOGIN
authLOGIN(sess, env) ==
    LET w1 == <<Written(StatusProvideCredentials, " ", "VXNlcm5hbWU6", env.w1)>>
        w2 == Append(w1, Written(StatusProvideCredentials, " ", "UGFzc3dvcmQ6", env.w2))
        user == DecodeString(env.r1.line)
        pass == DecodeString(env.r2.line)
        c == <<Call("Authenticate", user.data, pass.data, Answer(env.auth))>>
    IN IF ~env.w1 THEN Res(sess, WriteErr, <<>>, w1)
       ELSE IF env.r1.err /= NilErr THEN Res(sess, env.r1.err, <<>>, w1)
       ELSE IF ~user.ok THEN Res(sess, ErrDecodingCredentials, <<>>, w1)
       ELSE IF ~env.w2 THEN Res(sess, WriteErr, <<>>, w2)
       ELSE IF env.r2.err /= NilErr THEN Res(sess, env.r2.err, <<>>, w2)
       ELSE IF ~pass.ok THEN Res(sess, ErrDecodingCredentials, <<>>, w2)
       ELSE IF sess.sHandler = NoSessionHandler THEN Panic(sess, <<>>, w2)
       ELSE Res(sess, env.auth, c, w2)

\* authPLAIN as it would be if the inline payload were taken from the field
\* before it (the mechanism name).
authPLAIN_wrongField(sess, cmd, env) ==
    LET inline == Len(cmd.fields) >= 3
        w     == IF inline THEN <<>>
                 ELSE <<Written(StatusProvideCredentials, " ",
                                "Give me your credentials", env.w1)>>
        auth  == IF inline THEN cmd.fields[2] ELSE env.r1.line
        dec   == DecodeString(auth)
        parts == Split(dec.data, NUL)
    IN IF ~inline /\ ~env.w1 THEN Res(sess, WriteErr, <<>>, w)
       ELSE IF ~inline /\ env.r1.err /= NilErr THEN Res(sess, env.r1.err, <<>>, w)
       ELSE IF ~dec.ok THEN Res(sess, ErrDecodingCredentials, <<>>, w)
       ELSE IF Len(parts) /= 3 THEN Res(sess, ErrDecodingCredentials, <<>>, w)
       ELSE IF sess.sHandler = NoSessionHandler THEN Panic(sess, <<>>, w)
       ELSE Res(sess, env.auth, <<Call("Authenticate", parts[2], parts[3], Answer(env.auth))>>, w)

\* authPLAIN: the payload is the third field, or the next line after a 334.
authPLAIN(sess, cmd, env) ==
    LET inline == Len(cmd.fields) >= 3
        w     == IF inline THEN <<>>
                 ELSE <<Written(StatusProvideCredentials, " ",
                                "Give me your credentials", env.w1)>>
        auth  == IF inline THEN cmd.fields[3] ELSE env.r1.line
        dec   == DecodeString(auth)
        parts == Split(dec.data, NUL)
    IN IF ~inline /\ ~env.w1 THEN Res(sess, WriteErr, <<>>, w)
       ELSE IF ~inline /\ env.r1.err /= NilErr THEN Res(sess, env.r1.err, <<>>, w)
       ELSE IF ~dec.ok THEN Res(sess, ErrDecodingCredentials, <<>>, w)
       ELSE IF Len(parts) /= 3 THEN Res(sess, ErrDecodingCredentials, <<>>, w)
       ELSE IF sess.sHandler = NoSessionHandler THEN Panic(sess, <<>>, w)
       ELSE Res(sess, env.auth, <<Call("Authenticate", parts[2], parts[3], Answer(env.auth))>>, w)

\* handleAUTH as it would be without the test of gotHelo.
handleAUTH_noHeloCheck(sess, cmd, env) ==
    IF Len(cmd.fields) < 2 THEN Res(sess, ErrInvalidSyntax, <<>>, <<>>)
    ELSE
      LET mechanism == ToUpper(cmd.fields[2])
      IN IF mechanism = <<"LOGIN">> THEN authLOGIN(sess, env)
         ELSE IF mechanism = <<"PLAIN">> THEN authPLAIN(sess, cmd, env)
         ELSE Res(sess, NewReportableStatus(StatusCommandNotImplemented,
                                            "Unknown authentication mechanism"),
                  <<>>, <<>>)

\* handleAUTH and its mechanism table authMap.
handleAUTH(sess, cmd, env) ==
    IF ~sess.gotHelo THEN Res(sess, ErrNoHelo, <<>>, <<>>)
    ELSE IF Len(cmd.fields) < 2 THEN Res(sess, ErrInvalidSyntax, <<>>, <<>>)
    ELSE
      LET mechanism == ToUpper(cmd.fields[2])
      IN IF mechanism = <<"LOGIN">> THEN authLOGIN(sess, env)
         ELSE IF mechanism = <<"PLAIN">> THEN authPLAIN(sess, cmd, env)
         ELSE Res(sess, NewReportableStatus(StatusCommandNotImplemented,
                                            "Unknown authentication mechanism"),
                  <<>>, <<>>)

(***************************************************************************)
(* handleError (session.go)                                                *)
(***************************************************************************)
\* The non-reportable branch as it would be if keepGoing were left alone.
fatalError_keepsGoing(sess, err, w) ==
    [ s     |-> sess,
      wrote |-> w,
      errs  |-> IF sess.sHandler = NoSessionHandler THEN <<>> ELSE <<err>>,
      crash |-> sess.sHandler = NoSessionHandler ]

\* The non-reportable branch: keepGoing is cleared, then the error goes to
\* HandleSessionError, which panics on a nil policy handler.
fatalError(sess, err, w) ==
    [ s     |-> [sess EXCEPT !.keepGoing = FALSE],
      wrote |-> w,
      errs  |-> IF sess.sHandler = NoSessionHandler THEN <<>> ELSE <<err>>,
      crash |-> sess.sHandler = NoSessionHandler ]

\* handleError as it would be if a reportable status ended the session
\* once its line is written.
handleError_statusEnds(sess, err, wOk) ==
    IF err = NilErr
    THEN [s |-> sess, wrote |-> <<>>, errs |-> <<>>, crash |-> FALSE]
    ELSE IF err.kind = "status"
    THEN IF wOk
         THEN [ s |-> [sess EXCEPT !.keepGoing = FALSE],
                wrote |-> <<Written(err.code, " ", err.msg, TRUE)>>,
                errs |-> <<>>, crash |-> FALSE ]
         ELSE fatalError(sess, WriteErr, <<Written(err.code, " ", err.msg, FALSE)>>)
    ELSE fatalError(sess, err, <<>>)

\* handleError; wOk is whether the reply line of a reportable status was
\* written.  A failed write is handled as an error in turn.
handleError(sess, err, wOk) ==
    IF err = NilErr
    THEN [s |-> sess, wrote |-> <<>>, errs |-> <<>>, crash |-> FALSE]
    ELSE IF err.kind = "status"
    THEN IF wOk
         THEN [ s |-> sess, wrote |-> <<Written(err.code, " ", err.msg, TRUE)>>,
                errs |-> <<>>, crash |-> FALSE ]
         ELSE fatalError(sess, WriteErr, <<Written(err.code, " ", err.msg, FALSE)>>)
    ELSE fatalError(sess, err, <<>>)

(***************************************************************************)
(* The session goroutine: serve, serveOne, closeOrReport                   *)
(***************************************************************************)
\* The command lines a client may send.
Lines ==
    { <<>>,
      <<"foo">>,
      <<"FROM", COLON, LT, "a@b", GT>>,
      <<"EHLO">>, <<"ehlo", SP, "host">>,
      <<"HELO">>, <<"helo", SP, "host">>, <<SP, "HELO", SP, SP, "host", SP>>,
      <<"MAIL">>, <<"MAIL", SP, "FROM">>,
      <<"MAIL", SP, "FROM", COLON, LT, "a@b", GT>>,
      <<"mail", SP, "FROM", COLON, LT, "c@d", GT>>,
      <<"MAIL", SP, "FROM", COLON, "a@b">>,
      <<"MAIL", SP, "FROM", COLON, SP, LT, "a@b", GT>>,
      <<"MAIL", SP, "FROM", COLON, LT, "nobody", GT>>,
      <<"RCPT">>, <<"RCPT", SP, "TO">>,
      <<"rcpt", SP, "TO", COLON, LT, "c@d", GT>>,
      <<"RCPT", SP, "TO", COLON, "c@d">>,
      <<"RCPT", SP, "TO", COLON, LT, GT>>,
      <<"DATA">>, <<"rset">>, <<"NOOP">>, <<"QUIT">>, <<"starttls">>,
      <<"AUTH">>, <<"AUTH", SP, "CRAM-MD5">>,
      <<"AUTH", SP, "login">>, <<"AUTH", SP, "plain">>,
      <<"AUTH", SP, "PLAIN", SP, "AGFsaWNlAHNlY3JldA==">>,
      <<"AUTH", SP, "PLAIN", SP, "YWxpY2UAc2VjcmV0">>,
      <<"AUTH", SP, "PLAIN", SP, "!!!">> }

\* The keys of operationHandlers.
Verbs ==
    {"AUTH", "DATA", "EHLO", "HELO", "MAIL", "NOOP", "QUIT", "RCPT", "RSET", "STARTTLS"}

\* The commands parseLine makes of these lines, and those among them whose
\* verb looks up to the handler named v.
Commands == { parseLine(l) : l \in Lines }
CommandsOf(v) == { cmd \in Commands : cmd.action = <<v>> }

\* The session Serve builds for a connection and hands to `go sn.serve()`.
SessionInit ==
    /\ s = newSession(PlainHandler, "conn", FALSE)
    /\ pc = "serve"
    /\ ret = NilErr
    /\ op = "none"
    /\ line = <<>>
    /\ pre = s
    /\ calls = <<>>
    /\ wrote = <<>>
    /\ sessErrs = <<>>
    /\ connClosed = FALSE
    /\ upgrades = 0

\* One session is followed: Serve has accepted its connection, got its
\* handler from OnNewConnection and started its goroutine.
Init ==
    /\ server \in [OnNewConnection : {TRUE}, RequireAuth : BOOLEAN,
                    RequireTLS : BOOLEAN, TLSConfig : BOOLEAN]
    /\ SessionInit
    /\ servePc = "Accept"
    /\ accepted = 1
    /\ onNew = <<Call("OnNewConnection", <<"peer">>, <<"false">>,
                      [handler |-> PlainHandler, err |-> NilErr])>>
    /\ workers = <<[conn |-> 1, s |-> newSession(PlainHandler, "conn", FALSE)]>>
    /\ serveErr = NilErr

\* serve, up to the loop: the greeting line; a failed write is reported and
\* serve returns through the deferred closeOrReport.
Greet ==
    /\ pc = "serve"
    /\ \E wOk \in BOOLEAN :
         /\ wrote' = <<Written(StatusServiceReady, " ", "hostname ESMTP ready", wOk)>>
         /\ sessErrs' = IF wOk THEN sessErrs ELSE Append(sessErrs, WriteErr)
         /\ pc' = IF wOk THEN "for" ELSE "close"
    /\ UNCHANGED <<server, s, ret, op, line, pre, calls, connClosed, upgrades>>
    /\ UNCHANGED serveVars

\* closeOrReport(s.conn), deferred by serve.
Close ==
    /\ pc = "close"
    /\ \E cOk \in BOOLEAN :
         sessErrs' = IF cOk THEN sessErrs ELSE Append(sessErrs, OtherErr("close failure"))
    /\ connClosed' = TRUE
    /\ pc' = "returned"
    /\ UNCHANGED <<server, s, ret, op, line, pre, calls, wrote, upgrades>>
    /\ UNCHANGED serveVars

\* The loop of serve: "for" has no condition, so every iteration reaches
\* the test of keepGoing.
LoopHead ==
    /\ pc = "for"
    /\ pc' = "if"
    /\ UNCHANGED <<server, s, ret, op, line, pre, calls, wrote, sessErrs,
                   connClosed, upgrades>>
    /\ UNCHANGED serveVars

\* The test finds keepGoing false: serveOne is skipped and the loop goes
\* round again.
Spin ==
    /\ pc = "if"
    /\ ~s.keepGoing
    /\ pc' = "for"
    /\ UNCHANGED <<server, s, ret, op, line, pre, calls, wrote, sessErrs,
                   connClosed, upgrades>>
    /\ UNCHANGED serveVars

\* serveOne, entered when the test finds keepGoing true, up to its call of
\* handleError: what was dispatched (name), on which line, with which
\* outcome.  A panic is not recovered: the goroutine goes no further.
Dispatch(name, l, r) ==
    /\ pc = "if"
    /\ s.keepGoing
    /\ op' = name
    /\ line' = l
    /\ pre' = s
    /\ s' = r.s
    /\ ret' = r.ret
    /\ calls' = r.calls
    /\ wrote' = r.wrote
    /\ upgrades' = IF r.up THEN upgrades + 1 ELSE upgrades
    /\ pc' = IF r.crash THEN "panic in handler" ELSE "handleError"
    /\ UNCHANGED <<server, sessErrs, connClosed>>
    /\ UNCHANGED serveVars

\* serveOne: SetReadDeadline fails.
DeadlineFails == Dispatch("deadline", <<>>, Res(s, OtherErr("deadline failure"), <<>>, <<>>))

\* serveOne: ReadLine fails (timeout, EOF, failed TLS handshake).
ReadFails == Dispatch("read", <<>>, Res(s, ReadErr, <<>>, <<>>))

\* serveOne: the verb is not a key of operationHandlers.
Unsupported ==
    \E cmd \in Commands :
      /\ \A v \in Verbs : cmd.action /= <<v>>
      /\ Dispatch("unsupported", cmd.line,
                  Res(s, NewReportableStatus(StatusCommandNotImplemented,
                                             "Unsupported command"), <<>>, <<>>))

\* The environments that differ in something the AUTH command consults: a
\* command without mechanism, with an unknown one, or before the greeting
\* consults nothing, PLAIN with an inline payload only Authenticate.
AuthEnvsFor(sess, cmd) ==
    LET quiet == { e \in AuthEnvs : e.w1 /\ e.w2 /\ e.r1.line = <<>> /\ e.r2.line = <<>>
                                    /\ e.r1 /= NoRead /\ e.r2 /= NoRead }
    IN IF ~sess.gotHelo \/ Len(cmd.fields) < 2
          \/ ToUpper(cmd.fields[2]) \notin {<<"LOGIN">>, <<"PLAIN">>}
       THEN { e \in quiet : e.auth = NilErr }
       ELSE IF ToUpper(cmd.fields[2]) = <<"PLAIN">>
       THEN IF Len(cmd.fields) >= 3 THEN quiet
            ELSE { e \in AuthEnvs : e.w2 /\ e.r2.line = <<>>
                                    /\ (e.r1 /= NoRead => e.r2 /= NoRead) }
       ELSE AuthEnvs

DoAUTH ==
    \E cmd \in CommandsOf("AUTH") :
      \E env \in AuthEnvsFor(s, cmd) :
        Dispatch("AUTH", cmd.line, handleAUTH(s, cmd, env))

DoDATA ==
    \E cmd \in CommandsOf("DATA"), gdw \in HandlerResults, wOk \in BOOLEAN,
       copy \in CopyResults, closed \in HandlerResults :
      Dispatch("DATA", cmd.line, handleDATA(s, gdw, wOk, copy, closed))

DoEHLO ==
    \E cmd \in CommandsOf("EHLO"), helo \in HandlerResults, failAt \in 0..4 :
      Dispatch("EHLO", cmd.line, handleEHLO(s, server, cmd, helo, failAt))

DoHELO ==
    \E cmd \in CommandsOf("HELO"), helo \in HandlerResults :
      Dispatch("HELO", cmd.line, handleHELO(s, cmd, helo))

DoMAIL ==
    \E cmd \in CommandsOf("MAIL"), gmh \in GetMessageHandlerResults :
      Dispatch("MAIL", cmd.line, handleMAIL(s, server, cmd, gmh))

DoNOOP == \E cmd \in CommandsOf("NOOP") : Dispatch("NOOP", cmd.line, handleNOOP(s))

DoQUIT == \E cmd \in CommandsOf("QUIT") : Dispatch("QUIT", cmd.line, handleQUIT(s))

DoRCPT ==
    \E cmd \in CommandsOf("RCPT"), added \in HandlerResults :
      Dispatch("RCPT", cmd.line, handleRCPT(s, cmd, added))

DoRSET == \E cmd \in CommandsOf("RSET") : Dispatch("RSET", cmd.line, handleRSET(s))

DoSTARTTLS ==
    \E cmd \in CommandsOf("STARTTLS"), wOk \in BOOLEAN, fresh \in OnNewConnectionResults :
      Dispatch("STARTTLS", cmd.line, handleSTARTTLS(s, server, wOk, fresh))

\* serveOne's call of handleError on what the handler returned, and the
\* return to the loop of serve.
HandleError ==
    /\ pc = "handleError"
    /\ \E wOk \in BOOLEAN :
         LET r == handleError(s, ret, wOk) IN
           /\ s' = r.s
           /\ wrote' = wrote \o r.wrote
           /\ sessErrs' = sessErrs \o r.errs
           /\ pc' = IF r.crash THEN "panic in handleError" ELSE "for"
    /\ UNCHANGED <<server, ret, op, line, pre, calls, connClosed, upgrades>>
    /\ UNCHANGED serveVars

Next ==
    \/ Greet
    \/ Close
    \/ LoopHead
    \/ Spin
    \/ DeadlineFails
    \/ ReadFails
    \/ Unsupported
    \/ DoAUTH
    \/ DoDATA
    \/ DoEHLO
    \/ DoHELO
    \/ DoMAIL
    \/ DoNOOP
    \/ DoQUIT
    \/ DoRCPT
    \/ DoRSET
    \/ DoSTARTTLS
    \/ HandleError

Spec == Init /\ [][Next]_vars

\* The goroutine is scheduled as long as it can take a step.
FairSpec == Spec /\ WF_vars(Next)

(***************************************************************************)
(* Server.Serve: the accept loop                                           *)
(***************************************************************************)
\* Serve is called on a server whose callback is set or not; no session is
\* run here.
ServeInit ==
    /\ server \in [OnNewConnection : BOOLEAN, RequireAuth : {FALSE},
                    RequireTLS : {FALSE}, TLSConfig : {FALSE}]
    /\ SessionInit
    /\ servePc = "Serve"
    /\ accepted = 0
    /\ onNew = <<>>
    /\ workers = <<>>
    /\ serveErr = NilErr

sessionVars == <<server, s, pc, ret, op, line, pre, calls, wrote, sessErrs,
                 connClosed, upgrades>>

\* Serve returns err.
ServeReturns(err) ==
    /\ servePc' = "returned"
    /\ serveErr' = err

\* The test of OnNewConnection before the loop.
CheckCallback ==
    /\ servePc = "Serve"
    /\ IF server.OnNewConnection
       THEN servePc' = "Accept" /\ UNCHANGED serveErr
       ELSE ServeReturns(OtherErr("new connection callback not be nil"))
    /\ UNCHANGED <<sessionVars, accepted, onNew, workers>>

\* listener.Accept returns a connection.
AcceptConn ==
    /\ servePc = "Accept"
    /\ accepted < MaxConns
    /\ accepted' = accepted + 1
    /\ servePc' = "OnNewConnection"
    /\ UNCHANGED <<sessionVars, onNew, workers, serveErr>>

\* listener.Accept returns a temporary net.Error: Serve sleeps a second.
AcceptTemporary ==
    /\ servePc = "Accept"
    /\ servePc' = "Sleep"
    /\ UNCHANGED <<sessionVars, accepted, onNew, workers, serveErr>>

\* The sleep is over: continue.
Retry ==
    /\ servePc = "Sleep"
    /\ servePc' = "Accept"
    /\ UNCHANGED <<sessionVars, accepted, onNew, workers, serveErr>>

\* listener.Accept returns any other error.
AcceptPermanent ==
    /\ servePc = "Accept"
    /\ ServeReturns(OtherErr("accept failure"))
    /\ UNCHANGED <<sessionVars, accepted, onNew, workers>>

\* OnNewConnection(conn.RemoteAddr(), false) and what Serve does with its
\* answer: return the error, continue on a nil handler, or start a session.
NewConnection ==
    /\ servePc = "OnNewConnection"
    /\ \E fresh \in RawConnectionResults :
         /\ onNew' = Append(onNew, Call("OnNewConnection", <<"peer">>, <<"false">>, fresh))
         /\ IF fresh.err /= NilErr
            THEN ServeReturns(fresh.err) /\ UNCHANGED workers
            ELSE IF fresh.handler = NoSessionHandler
            THEN servePc' = "Accept" /\ UNCHANGED <<workers, serveErr>>
            ELSE /\ workers' = Append(workers,
                                      [conn |-> accepted,
                                       s |-> newSession(fresh.handler, "conn", FALSE)])
                 /\ servePc' = "Accept"
                 /\ UNCHANGED serveErr
    /\ UNCHANGED <<sessionVars, accepted>>

ServeNext ==
    \/ CheckCallback
    \/ AcceptConn
    \/ AcceptTemporary
    \/ Retry
    \/ AcceptPermanent
    \/ NewConnection

ServeSpec == ServeInit /\ [][ServeNext]_vars

TypeOK ==
    /\ pc \in {"serve", "for", "if", "handleError", "close", "returned",
              "panic in handler", "panic in handleError"}
    /\ s.mHandler \in {NoMessageHandler} \cup MessageHandlers
    /\ s.sHandler \in {PlainHandler, TLSHandler, NoSessionHandler}
    /\ s.gotHelo \in BOOLEAN /\ s.isTLS \in BOOLEAN /\ s.keepGoing \in BOOLEAN
    /\ upgrades \in 0..1
    /\ Len(sessErrs) <= 2

(***************************************************************************)
(* Properties                                                              *)
(***************************************************************************)
\* The command serveOne parsed from the last line read.
cmdOf == parseLine(line)

\* The handler of verb v ran on the last line: it has returned to
\* serveOne, or it panicked.
Ran(v) == op = v /\ pc \in {"handleError", "panic in handler"}

\* The reply line handleError writes for a reportable status.
ReplyLine(status, ok) == Written(status.code, " ", status.msg, ok)

\* C1: RCPT or DATA handled while no message handler is active (no MAIL
\* succeeded since the session was created or since the handler was last
\* cleared) never panics, returns the 503 bad-sequence status, calls neither
\* the policy nor the message handler and leaves the session struct
\* (gotHelo, isTLS, keepGoing, the nil mHandler) as it was; the one line then
\* written for the command is "503 Invalid command sequence", and the struct
\* is still unchanged once that line is out.
C1_RcptDataOutsideTransaction ==
    (op \in {"RCPT", "DATA"} /\ pre.mHandler = NoMessageHandler) =>
      /\ pc /= "panic in handler"
      /\ ret = ErrBadSequence
      /\ calls = <<>>
      /\ s.gotHelo = pre.gotHelo /\ s.isTLS = pre.isTLS
      /\ s.mHandler = NoMessageHandler
      /\ pc = "handleError" => (s = pre /\ wrote = <<>>)
      /\ pc /= "handleError" =>
           /\ Len(wrote) = 1
           /\ wrote[1] = ReplyLine(ErrBadSequence, wrote[1].ok)
           /\ wrote[1].ok => s = pre

\* An RCPT with a well-formed address, after the greeting, outside a
\* transaction, has been turned down.
C1_Witness ==
    /\ Ran("RCPT") /\ pre.gotHelo /\ pre.mHandler = NoMessageHandler
    /\ Len(cmdOf.params) = 2 /\ parseAddress(cmdOf.params[2]).ok
    /\ ret = ErrBadSequence

\* C2: MAIL handled while gotHelo is false returns the 503 bad-sequence
\* status, calls nothing and opens no message handler; MAIL handled after an
\* accepted HELO/EHLO, with a valid angle-bracketed address and TLS either
\* not required or active, asks GetMessageHandler for that address once and,
\* when the policy handler accepts, returns 250 go-ahead and makes the
\* returned handler the active message handler.
C2_MailNeedsGreeting ==
    (op = "MAIL" /\ pc \in {"handleError", "panic in handler"}) =>
      /\ ~pre.gotHelo =>
           /\ pc = "handleError"
           /\ ret = ErrNoHelo /\ ret.code = StatusBadSequence
           /\ calls = <<>>
           /\ s = pre /\ s.mHandler = NoMessageHandler
      /\ ( /\ pre.gotHelo
           /\ server.RequireTLS => pre.isTLS
           /\ Len(cmdOf.params) >= 2
           /\ parseAddress(cmdOf.params[2]).ok ) =>
           /\ pc = "handleError"
           /\ Len(calls) = 1
           /\ calls[1].op = "GetMessageHandler"
           /\ calls[1].a1 = parseAddress(cmdOf.params[2]).addr
           /\ calls[1].out.err = NilErr =>
                /\ ret = GoAhead
                /\ s.mHandler = calls[1].out.handler
                /\ s.mHandler /= NoMessageHandler
                /\ s = [pre EXCEPT !.mHandler = calls[1].out.handler]

\* A MAIL sent in lower case has been accepted and has replaced the handler
\* of an earlier MAIL.
C2_Witness ==
    /\ Ran("MAIL") /\ pre.gotHelo /\ ret = GoAhead
    /\ line[1] = "mail"
    /\ pre.mHandler /= NoMessageHandler /\ s.mHandler /= pre.mHandler

\* C3 as stated: with gotHelo false, each of AUTH, DATA, MAIL, RCPT and RSET
\* is rejected: it is not answered with a success status and changes no
\* state.
C3_Original ==
    (op \in {"AUTH", "DATA", "MAIL", "RCPT", "RSET"}
       /\ pc \in {"handleError", "panic in handler"} /\ ~pre.gotHelo) =>
      /\ pc = "handleError"
      /\ ret.kind = "status" /\ ret.code >= 400
      /\ s = pre

\* C3 as amended: with gotHelo false no message handler is active, and
\* AUTH, DATA, MAIL and RCPT are rejected with a 503 status, without a
\* handler call, a write or a change of state; RSET is accepted: it returns
\* 250 go-ahead, and it too changes nothing.
C3_RejectedBeforeGreeting ==
    /\ ~s.gotHelo => s.mHandler = NoMessageHandler
    /\ (op \in {"AUTH", "DATA", "MAIL", "RCPT", "RSET"}
          /\ pc \in {"handleError", "panic in handler"} /\ ~pre.gotHelo) =>
         /\ pc = "handleError"
         /\ s = pre /\ calls = <<>> /\ wrote = <<>>
         /\ op \in {"AUTH", "MAIL"} => ret = ErrNoHelo
         /\ op \in {"DATA", "RCPT"} => ret = ErrBadSequence
         /\ op /= "RSET" => ret.code = StatusBadSequence
         /\ op = "RSET" => ret = GoAhead

\* AUTH PLAIN with a good inline payload has been turned down after an
\* upgrade to TLS, before the new greeting.
C3_Witness ==
    /\ Ran("AUTH") /\ ~pre.gotHelo /\ pre.isTLS
    /\ Len(cmdOf.fields) = 3
    /\ ret = ErrNoHelo

\* The step of a handler that changes mHandler: from nil or to another
\* handler only in a MAIL that returns go-ahead, to nil only in a handler
\* of clearers (DATA only when it returns thank-you, STARTTLS only when it
\* replaces the session).
C4_Step(clearers) ==
    s'.mHandler /= s.mHandler =>
      /\ pc = "if" /\ pc' \in {"handleError", "panic in handler"}
      /\ s'.mHandler /= NoMessageHandler => (op' = "MAIL" /\ ret' = GoAhead)
      /\ s'.mHandler = NoMessageHandler =>
           /\ op' \in clearers
           /\ op' = "DATA" => ret' = ThankYou
           /\ op' = "STARTTLS" => upgrades' = upgrades + 1

\* A MAIL that returns go-ahead leaves a handler active.
C4_MailOpens ==
    (pc = "if" /\ pc' = "handleError" /\ op' = "MAIL" /\ ret' = GoAhead) =>
      s'.mHandler /= NoMessageHandler

\* C4 as stated: mHandler is non-nil after every successful MAIL, and
\* becomes nil only by a successfully completed DATA, an RSET, a HELO/EHLO
\* or a MAIL, and non-nil only by a successful MAIL.
C4_Original ==
    [][C4_Step({"DATA", "RSET", "HELO", "EHLO", "MAIL"}) /\ C4_MailOpens]_vars

\* C4 as amended: mHandler is non-nil after every successful MAIL; it
\* becomes non-nil (or another handler) only by a successful MAIL and nil
\* only by a successfully completed DATA, an RSET, a HELO/EHLO or a
\* STARTTLS that upgrades the session; and each of these, HELO/EHLO when it
\* carries an identity, leaves it nil.
C4_HandlerLifetime ==
    [][ /\ C4_Step({"DATA", "RSET", "HELO", "EHLO", "STARTTLS"})
        /\ C4_MailOpens
        /\ (pc = "if" /\ pc' = "handleError"
              /\ \/ op' = "DATA" /\ ret' = ThankYou
                 \/ op' = "RSET"
                 \/ op' \in {"HELO", "EHLO"} /\ Len(parseLine(line').fields) >= 2
                 \/ op' = "STARTTLS" /\ upgrades' = upgrades + 1)
             => s'.mHandler = NoMessageHandler ]_vars

\* A STARTTLS has upgraded the session in the middle of a mail transaction.
C4_Witness ==
    /\ Ran("STARTTLS") /\ pre.mHandler /= NoMessageHandler
    /\ s.isTLS /\ s.mHandler = NoMessageHandler

\* C5: after DATA handled with an active message handler, the handler is
\* nil, whether the data phase succeeded or failed, and a failed Close
\* returns no success status.  Stated for the outcomes after which the
\* session serves the next command (DATA returned a reportable status), where
\* a handler left in place is met by the next RCPT or DATA.
C5_DataAlwaysClears ==
    (Ran("DATA") /\ pre.mHandler /= NoMessageHandler /\ ret.kind = "status") =>
      /\ s.mHandler = NoMessageHandler
      /\ (Len(calls) = 3 /\ calls[3].out.err /= NilErr) => ret /= ThankYou

\* C6: RSET, before the greeting, idle or inside a transaction, never
\* panics, returns 250 go-ahead, calls no handler, writes nothing itself,
\* leaves mHandler nil and everything else in the session struct (gotHelo,
\* isTLS, keepGoing) as it was; the one line then written for the command
\* is "250 Go ahead".
C6_RsetClears ==
    op = "RSET" =>
      /\ pc /= "panic in handler"
      /\ ret = GoAhead
      /\ calls = <<>>
      /\ s.mHandler = NoMessageHandler
      /\ s.gotHelo = pre.gotHelo /\ s.isTLS = pre.isTLS
      /\ pc = "handleError" =>
           (s = [pre EXCEPT !.mHandler = NoMessageHandler] /\ wrote = <<>>)
      /\ pc /= "handleError" =>
           /\ Len(wrote) = 1
           /\ wrote[1] = ReplyLine(GoAhead, wrote[1].ok)
           /\ wrote[1].ok => s = [pre EXCEPT !.mHandler = NoMessageHandler]

\* An RSET has ended an open mail transaction.
C6_Witness ==
    /\ Ran("RSET") /\ pre.mHandler /= NoMessageHandler
    /\ s.mHandler = NoMessageHandler /\ ret = GoAhead

\* C7: once keepGoing is false, the loop of serve exits, serve returns and
\* the transport is closed.
C7_LoopExits ==
    (pc \in {"for", "if"} /\ ~s.keepGoing) ~> (pc = "returned" /\ connClosed)

\* C8: once handleError has dealt with what a command produced, a fatal
\* error (a non-reportable error, or the failed write of a reply) has been
\* handed to HandleSessionError exactly once, keepGoing is false and no
\* reply was written for it; a reportable status whose line was written has
\* not been handed to HandleSessionError.
C8_FatalForwardedOnce ==
    (op /= "none" /\ pc \in {"for", "if", "panic in handleError"}) =>
      IF ret.kind = "other"
      THEN /\ sessErrs = <<ret>>
           /\ ~s.keepGoing
           /\ \A i \in 1..Len(wrote) : wrote[i] /= ReplyLine(ret, wrote[i].ok)
           /\ op \in {"deadline", "read"} => wrote = <<>>
      ELSE IF ret.kind = "status" /\ ~wrote[Len(wrote)].ok
      THEN /\ sessErrs = <<WriteErr>>
           /\ ~s.keepGoing
      ELSE sessErrs = <<>>

\* C9: a command whose required argument is missing returns the 501
\* syntax-error status without a panic and without a handler call, and the
\* session goes on: EHLO/HELO with one field, AUTH with one field after the
\* greeting, MAIL after the greeting (TLS not required or active) and RCPT
\* inside a transaction with fewer than two colon-separated parameters.
C9_MissingArgument ==
    ( \/ op \in {"EHLO", "HELO"} /\ Len(cmdOf.fields) < 2
      \/ op = "AUTH" /\ pre.gotHelo /\ Len(cmdOf.fields) < 2
      \/ /\ op = "MAIL" /\ pre.gotHelo /\ (server.RequireTLS => pre.isTLS)
         /\ Len(cmdOf.params) < 2
      \/ /\ op = "RCPT" /\ pre.mHandler /= NoMessageHandler
         /\ Len(cmdOf.params) < 2 ) =>
      /\ pc /= "panic in handler"
      /\ ret.kind = "status" /\ ret.code = StatusSyntaxError
      /\ calls = <<>>
      /\ pc = "handleError" => s.keepGoing

C11_UpgradeReplacesSession ==
    /\ (op = "STARTTLS" /\ ret = NilErr /\ pc \in {"handleError", "for", "if"}) =>
         /\ Len(calls) = 1
         /\ calls[1].op = "OnNewConnection" /\ calls[1].a2 = <<"true">>
         /\ calls[1].out.err = NilErr
         /\ s = newSession(calls[1].out.handler, "tlsConn", TRUE)
         /\ s.isTLS /\ ~s.gotHelo /\ s.keepGoing
         /\ s.mHandler = NoMessageHandler
         /\ s.conn /= pre.conn
    /\ (s.isTLS /\ ~s.gotHelo) => s.mHandler = NoMessageHandler
    /\ (op \in {"MAIL", "RCPT", "DATA", "AUTH"}
          /\ pc \in {"handleError", "panic in handler"}
          /\ pre.isTLS /\ ~pre.gotHelo) =>
         /\ pc = "handleError"
         /\ ret.kind = "status" /\ ret.code = StatusBadSequence
         /\ calls = <<>> /\ wrote = <<>> /\ s = pre

\* A session greeted and in the middle of a mail transaction has been
\* upgraded.
C11_Witness ==
    /\ op = "STARTTLS" /\ pc = "handleError" /\ ret = NilErr
    /\ pre.gotHelo /\ pre.mHandler /= NoMessageHandler /\ ~pre.isTLS
    /\ ~s.gotHelo /\ s.sHandler = TLSHandler

\* C12: on a server with RequireTLS, a MAIL handled on a session that is not
\* encrypted returns a 503 status, asks for no message handler and opens
\* none; so on such a server an active message handler implies isTLS, and
\* an RCPT or DATA handled on a session that is not encrypted returns the
\* 503 bad-sequence status without reaching a message handler.
C12_RequireTLS ==
    server.RequireTLS =>
      /\ s.mHandler /= NoMessageHandler => s.isTLS
      /\ (op \in {"MAIL", "RCPT", "DATA"}
            /\ pc \in {"handleError", "panic in handler"} /\ ~pre.isTLS) =>
           /\ pc = "handleError"
           /\ ret.kind = "status" /\ ret.code = StatusBadSequence
           /\ op \in {"RCPT", "DATA"} => ret = ErrBadSequence
           /\ calls = <<>> /\ wrote = <<>>
           /\ s = pre /\ s.mHandler = NoMessageHandler

\* A MAIL with a good address, after the greeting, has been told to start
\* TLS first.
C12_Witness ==
    /\ Ran("MAIL") /\ server.RequireTLS /\ pre.gotHelo /\ ~pre.isTLS
    /\ Len(cmdOf.params) = 2 /\ parseAddress(cmdOf.params[2]).ok
    /\ ret = NewReportableStatus(StatusBadSequence, "please start TLS 1st")

\* The lines of the reply whose text is ext.
LinesSaying(ext) == { i \in 1..Len(wrote) : wrote[i].msg = ext }

\* C13: the reply to an accepted EHLO (handleEHLO returned a 250 status and
\* handleError has dealt with it) is a list of at least three lines, all
\* with code 250, every line but the last written as "250-text" and the
\* last as "250 text"; it has exactly one STARTTLS line when TLS material
\* is configured and the session is not encrypted and none otherwise (so
\* none after an upgrade), and an AUTH line exactly when RequireAuth is
\* set.  When handleEHLO returns, all lines but the last are out and the
\* last is the message of the status it returns.
C13_EhloReply ==
    (op = "EHLO" /\ ret.kind = "status" /\ ret.code = StatusOK) =>
      LET ext == extensions(pre, server) IN
      /\ pc \in {"handleError", "for", "if", "panic in handleError"}
      /\ pc = "handleError" =>
           /\ Len(wrote) = Len(ext) - 1
           /\ ret.msg = ext[Len(ext)]
           /\ \A i \in 1..Len(wrote) :
                wrote[i] = Written(StatusOK, "-", ext[i], TRUE)
      /\ pc /= "handleError" =>
           /\ Len(wrote) >= 3 /\ Len(wrote) = Len(ext)
           /\ \A i \in 1..Len(wrote) : wrote[i].code = StatusOK /\ wrote[i].msg = ext[i]
           /\ \A i \in 1..(Len(wrote) - 1) : wrote[i].sep = "-" /\ wrote[i].ok
           /\ wrote[Len(wrote)].sep = " "
           /\ Cardinality(LinesSaying("STARTTLS")) =
                IF server.TLSConfig /\ ~s.isTLS THEN 1 ELSE 0
           /\ upgrades = 1 => LinesSaying("STARTTLS") = {}
           /\ Cardinality(LinesSaying("AUTH PLAIN LOGIN")) =
                IF server.RequireAuth THEN 1 ELSE 0

\* An EHLO has been answered on the upgraded session of a server with
\* RequireAuth: the list ends with the AUTH line.
C13_Witness ==
    /\ op = "EHLO" /\ pc = "for" /\ ret.kind = "status" /\ ret.code = StatusOK
    /\ s.isTLS /\ s.gotHelo /\ server.TLSConfig /\ server.RequireAuth
    /\ Len(wrote) = 4 /\ wrote[4] = Written(StatusOK, " ", "AUTH PLAIN LOGIN", TRUE)

\* C14: AUTH PLAIN handled with the payload inline (a third field) has the
\* outcome of AUTH PLAIN handled without it, on the same session, when the
\* 334 prompt is written and the same payload is the line read next: the
\* same returned value, the same calls, the same session afterwards (the
\* one before the command), the prompt being the only difference.  When
\* the payload decodes to exactly three NUL-separated parts that outcome
\* is one call Authenticate(parts[1], parts[2]) whose answer is returned,
\* otherwise ErrDecodingCredentials and no call.
C14_PlainInlineOrPrompted ==
    (op = "AUTH" /\ pc \in {"handleError", "panic in handler"} /\ pre.gotHelo
       /\ Len(cmdOf.fields) >= 3 /\ ToUpper(cmdOf.fields[2]) = <<"PLAIN">>) =>
      LET payload  == cmdOf.fields[3]
          dec      == DecodeString(payload)
          parts    == Split(dec.data, NUL)
          prompted == parseLine(<<"AUTH", SP, "PLAIN">>)
          same     == { env \in AuthEnvs :
                          /\ env.w1
                          /\ env.r1 = [err |-> NilErr, line |-> payload]
                          /\ calls /= <<>> => env.auth = calls[1].out.err }
      IN
      /\ pc = "handleError" /\ s = pre /\ wrote = <<>>
      /\ same /= {}
      /\ \A env \in same :
           LET other == handleAUTH(pre, prompted, env) IN
             /\ ~other.crash
             /\ other.ret = ret /\ other.calls = calls /\ other.s = s
             /\ other.wrote = <<Written(StatusProvideCredentials, " ",
                                        "Give me your credentials", TRUE)>>
      /\ IF dec.ok /\ Len(parts) = 3
         THEN /\ Len(calls) = 1
              /\ calls[1] = Call("Authenticate", parts[2], parts[3], calls[1].out)
              /\ ret = calls[1].out.err
         ELSE ret = ErrDecodingCredentials /\ calls = <<>>

\* AUTH PLAIN with the inline payload base64("\0alice\0secret") has called
\* Authenticate("alice", "secret") and been told the client is authenticated.
C14_Witness ==
    /\ Ran("AUTH") /\ Len(cmdOf.fields) = 3
    /\ Len(calls) = 1 /\ calls[1].op = "Authenticate"
    /\ calls[1].a1 = <<"alice">> /\ calls[1].a2 = <<"secret">>
    /\ ret = AuthSuccess

\* Every line written for the last command reached the transport.
AllWritten == \A i \in 1..Len(wrote) : wrote[i].ok

\* C15 as stated, for the session flags: once an AUTH exchange is over,
\* successful or failed, with every line written and every line read, the
\* session struct is the one before it.
C15_Original ==
    (op = "AUTH" /\ pc \in {"for", "if", "panic in handleError"}
       /\ AllWritten /\ ret /= ReadErr) =>
      s = pre

\* C15 as amended: handleAUTH never assigns to the session struct, and once
\* handleError has dealt with what it returned the struct is still the one
\* before the command unless the exchange ended in a fatal error (a
\* non-reportable error from Authenticate or the transport, a reply that
\* could not be written), which clears keepGoing and nothing else; the
\* outcome of MAIL is the one the same command has on the same session
\* with RequireAuth the other way round; and RequireAuth changes the list
\* of extensions by the AUTH line at its end, no more.
C15_AuthChangesNothing ==
    /\ (op = "AUTH" /\ pc \in {"handleError", "panic in handler"}) =>
         pc = "handleError" /\ s = pre
    /\ (op = "AUTH" /\ pc \in {"for", "if", "panic in handleError"}) =>
         IF ret.kind = "other" \/ ~AllWritten
         THEN s = [pre EXCEPT !.keepGoing = FALSE]
         ELSE s = pre
    /\ (op = "MAIL" /\ pc \in {"handleError", "panic in handler"}) =>
         \A gmh \in GetMessageHandlerResults :
           (calls /= <<>> => gmh = calls[1].out) =>
             LET other == handleMAIL(pre, [server EXCEPT !.RequireAuth = ~@],
                                     cmdOf, gmh)
             IN /\ other.s = s /\ other.ret = ret /\ other.calls = calls
                /\ other.crash = (pc = "panic in handler")
    /\ extensions(pre, [server EXCEPT !.RequireAuth = TRUE]) =
         Append(extensions(pre, [server EXCEPT !.RequireAuth = FALSE]),
                "AUTH PLAIN LOGIN")

\* On a server with RequireAuth, an AUTH exchange has been turned down by
\* the policy handler with a status of its own, the reply is out and the
\* session is the one that was there before.
C15_Witness ==
    /\ op = "AUTH" /\ pc = "for" /\ server.RequireAuth
    /\ Len(calls) = 1 /\ calls[1].op = "Authenticate"
    /\ ret.kind = "status" /\ ret.code = StatusMailboxPermanentlyUnavailable
    /\ AllWritten /\ s = pre /\ s.keepGoing

\* The connections, by number, that OnNewConnection gave a handler for.
Handled == { i \in 1..Len(onNew) :
               onNew[i].out.err = NilErr /\ onNew[i].out.handler /= NoSessionHandler }

\* C16: Serve calls OnNewConnection once for every accepted connection,
\* with isTLS false; a nil handler starts no session and the loop goes on;
\* a non-nil handler starts exactly one session goroutine, for that
\* connection and that handler; and Serve returns only with a permanent
\* error of Accept (or, before the loop, because the callback is nil), so
\* that nothing a connection brings keeps later ones from being accepted.
C16_AcceptLoop ==
    /\ Len(onNew) = IF servePc = "OnNewConnection" THEN accepted - 1 ELSE accepted
    /\ \A i \in 1..Len(onNew) : onNew[i].a2 = <<"false">>
    /\ Len(workers) = Cardinality(Handled)
    /\ \A k \in 1..Len(workers) :
         /\ workers[k].conn \in Handled
         /\ workers[k].s = newSession(onNew[workers[k].conn].out.handler, "conn", FALSE)
         /\ \A j \in 1..Len(workers) : workers[j].conn = workers[k].conn => j = k
    /\ servePc = "returned" =>
         serveErr \in { OtherErr("accept failure"),
                        OtherErr("new connection callback not be nil") }

\* C17: handleError, given the reportable status a command produced, writes
\* one line "code message" for it, after whatever the handler wrote, and
\* no more; when that line is out the session struct is untouched, so
\* keepGoing is still true unless the command was QUIT.  An empty or
\* unknown verb produces the 502 status "Unsupported command" without a
\* handler call, a write or a change of the session struct.
C17_StatusReplied ==
    /\ [](op = "unsupported" =>
            /\ \A v \in Verbs : cmdOf.action /= <<v>>
            /\ ret = NewReportableStatus(StatusCommandNotImplemented,
                                         "Unsupported command")
            /\ calls = <<>>
            /\ s.gotHelo = pre.gotHelo /\ s.isTLS = pre.isTLS
            /\ s.mHandler = pre.mHandler /\ s.sHandler = pre.sHandler
            /\ pc = "handleError" => (s = pre /\ wrote = <<>>))
    /\ [][(pc = "handleError" /\ ret.kind = "status") =>
            /\ Len(wrote') = Len(wrote) + 1
            /\ wrote' = Append(wrote, ReplyLine(ret, wrote'[Len(wrote')].ok))
            /\ wrote'[Len(wrote')].ok =>
                 /\ s' = s
                 /\ pc' = "for"
                 /\ sessErrs' = sessErrs
                 /\ s'.keepGoing <=> op /= "QUIT"
            /\ ~wrote'[Len(wrote')].ok => ~s'.keepGoing]_vars

\* An empty line sent in the middle of a mail transaction has been
\* answered 502 and the transaction is still open.
C17_Witness ==
    /\ op = "unsupported" /\ line = <<>> /\ pc = "for"
    /\ wrote = <<Written(StatusCommandNotImplemented, " ", "Unsupported command", TRUE)>>
    /\ s = pre /\ s.keepGoing /\ s.mHandler /= NoMessageHandler

\* The calls of HandleHELO among the calls of the last command.
HeloCalls == { i \in 1..Len(calls) : calls[i].op = "HandleHELO" }

\* C18: an EHLO or HELO with an identity argument never panics, leaves
\* mHandler nil and calls HandleHELO exactly once, with that identity and
\* with extended true for EHLO and false for HELO; after it gotHelo is
\* true only if that call accepted (the policy handler accepted the most
\* recent EHLO/HELO of the session); an EHLO or HELO without argument
\* calls nothing and changes nothing.
C18_Greeting ==
    (op \in {"EHLO", "HELO"} /\ pc \in {"handleError", "panic in handler"}) =>
      IF Len(cmdOf.fields) >= 2
      THEN /\ pc = "handleError"
           /\ s.mHandler = NoMessageHandler
           /\ Cardinality(HeloCalls) = 1
           /\ calls[1].op = "HandleHELO"
           /\ calls[1].a1 = cmdOf.fields[2]
           /\ calls[1].a2 = (IF op = "EHLO" THEN <<"true">> ELSE <<"false">>)
           /\ s.gotHelo => calls[1].out.err = NilErr
      ELSE /\ pc = "handleError"
           /\ ret = ErrInvalidSyntax
           /\ calls = <<>> /\ wrote = <<>> /\ s = pre

\* C19: once a STARTTLS whose "250 Go ahead" line was written is over, the
\* session is either upgraded (isTLS, on the wrapped transport, with a
\* non-nil policy handler) or ended (keepGoing false); no second line was
\* written for the command; and a session that goes on has a policy
\* handler.
C19_StartTLSAllOrNothing ==
    /\ s.keepGoing => s.sHandler /= NoSessionHandler
    /\ (op = "STARTTLS" /\ pc \in {"for", "if", "panic in handleError"}
          /\ wrote /= <<>> /\ wrote[1] = Written(StatusOK, " ", "Go ahead", TRUE)) =>
         /\ \/ s.isTLS /\ s.conn = "tlsConn" /\ s.sHandler /= NoSessionHandler
            \/ ~s.keepGoing
         /\ Len(wrote) = 1

\* C20: keepGoing never goes from false to true; while it is false serveOne
\* is not entered, so no line is read, no command dispatched and no call
\* made to HandleHELO, Authenticate, GetMessageHandler, AddRecipient or
\* GetDataWriter, and the only line still written is the reply to the QUIT
\* that cleared it; and it is false once a QUIT or a fatal error (a
\* non-reportable error, a reply that could not be written) has been dealt
\* with, so that nothing sent after those is executed.
C20_KeepGoingMonotone ==
    /\ []((pc \in {"for", "if"} /\ op /= "none"
             /\ (op = "QUIT" \/ ret.kind = "other" \/ ~AllWritten))
            => ~s.keepGoing)
    /\ [][~s.keepGoing =>
            /\ ~s'.keepGoing
            /\ UNCHANGED <<op, line, pre, ret, calls, upgrades>>
            /\ pc' \notin {"panic in handler"}
            /\ wrote' /= wrote =>
                 /\ pc = "handleError" /\ op = "QUIT"
                 /\ wrote' = Append(wrote, ReplyLine(ret, wrote'[Len(wrote')].ok))]_vars

\* After a QUIT sent in the middle of a mail transaction and answered, the
\* loop of serve is at its test with keepGoing false.
C20_Witness ==
    /\ pc = "if" /\ ~s.keepGoing /\ op = "QUIT" /\ AllWritten
    /\ s.mHandler /= NoMessageHandler

====
